---- MODULE Spec2Model ----
(***************************************************************************)
(* Event-sourced user store: the User aggregate (create / updateName /     *)
(* updateEmail / delete / replay), the Prisma event store with its         *)
(* expected-version check, the event-sourced repository with its snapshot  *)
(* table, the outbox, and the create / update / delete use cases running   *)
(* concurrently against one database.                                      *)
(*                                                                         *)
(* Strings are sequences of one-character strings, so that trim(),         *)
(* toLowerCase() and the validation regex are computed, not assumed.       *)
(* A Date is the token "Date"; the same instant after a round trip through *)
(* a JSONB column is the token "IsoString".                                *)
(* The outbox table keeps created_at and processed_at as ticks of the      *)
(* database clock; its delivery poller and direct calls of replayEvents    *)
(* have specifications of their own (OutboxSpec, ReplaySpec), as have      *)
(* direct calls of the event store next to legacy snapshot rows            *)
(* (StoreSpec) and the list use case with its Redis cache (CacheSpec).     *)
(***************************************************************************)
EXTENDS Integers, Sequences, FiniteSets, TLC

\* ---------------------------------------------------------------- bounds
NumProcs == 2          \* concurrent request handlers
MaxOps == 2            \* use-case executions started in one behaviour
MaxUsers == 2          \* aggregate ids handed out by crypto.randomUUID()
MaxCalls == 4          \* direct calls on the in-memory aggregate
MaxEntries == 3        \* outbox rows while the delivery poller runs
MaxRemarks == 1        \* redundant markAsProcessed calls of the poller
MaxReplayLen == 3      \* length of an event sequence handed to replayEvents
MaxLog == 3            \* event_logs rows written by direct saveEvents calls
MaxLists == 2          \* list requests in one behaviour

\* ------------------------------------------------------- program constants
MinNameLength == 2
MaxNameLength == 100

\* ------------------------------------------------------------------ values
NULL == "null"
UNDEFINED == "undefined"
DateNow == "Date"
NoStr == <<UNDEFINED>>      \* an absent string member (email?: string)
Truthy(s) == s # NoStr /\ s # <<>>

Repeat(c, n) == [i \in 1..n |-> c]

EmailA == <<"a", "@", "x", ".", "c">>
EmailB == <<"b", "@", "x", ".", "c">>
EmailUpperA == <<"A", "@", "x", ".", "c">>
EmailPadA == <<" ", "a", "@", "x", ".", "c">>
EmailBad == <<"a", "x", ".", "c">>
NameAl == <<"A", "l">>
NameBo == <<"B", "o">>
NamePadAl == <<" ", "A", "l", " ">>
NameShort == <<" ", "A", " ">>
NameLong == Repeat("x", MaxNameLength + 1)
Actor1 == "actor1"

DomEmails == {EmailA, EmailB, EmailUpperA, EmailPadA, EmailBad}
DomNames == {NameAl, NameBo, NamePadAl, NameShort, NameLong}
Actors == {UNDEFINED, Actor1}

\* ------------------------------------------------------ shared/utils, JS
IsSpace(c) == c = " "

RECURSIVE TrimStart(_)
TrimStart(s) ==
    IF s = <<>> THEN <<>>
    ELSE IF IsSpace(Head(s)) THEN TrimStart(Tail(s)) ELSE s

RECURSIVE TrimEnd(_)
TrimEnd(s) ==
    IF s = <<>> THEN <<>>
    ELSE IF IsSpace(s[Len(s)]) THEN TrimEnd(SubSeq(s, 1, Len(s) - 1)) ELSE s

Trim(s) == TrimEnd(TrimStart(s))

LowerChar(c) ==
    CASE c = "A" -> "a"
      [] c = "B" -> "b"
      [] OTHER -> c

ToLowerCase(s) == [i \in 1..Len(s) |-> LowerChar(s[i])]

\* /^[^\s@]+@[^\s@]+\.[^\s@]+$/
validateEmail(email) ==
    \E i \in 1..Len(email), j \in 1..Len(email) :
        /\ email[i] = "@"
        /\ email[j] = "."
        /\ 1 < i /\ i + 1 < j /\ j < Len(email)
        /\ \A k \in 1..Len(email) :
              /\ ~IsSpace(email[k])
              /\ (email[k] = "@" => k = i)

validateName(name) ==
    /\ Len(Trim(name)) >= MinNameLength
    /\ Len(Trim(name)) <= MaxNameLength

\* x || null
OrNull(x) == IF x = UNDEFINED \/ x = NULL THEN NULL ELSE x

\* ------------------------------------------------------------ domain events
NoData ==
    [email |-> NoStr, name |-> NoStr,
     previousValues |-> [name |-> NoStr, email |-> NoStr],
     createdBy |-> UNDEFINED, updatedBy |-> UNDEFINED,
     deletedBy |-> UNDEFINED, deletedAt |-> UNDEFINED]

\* BaseDomainEvent: eventVersion is the field initialiser 1
BaseDomainEvent(aggregateId, eventType, eventData) ==
    [aggregateId |-> aggregateId, eventType |-> eventType,
     eventVersion |-> 1, eventData |-> eventData]

\* ---------------------------------------------------------------- aggregate
Ok(u) == [err |-> "none", user |-> u]
Err(e) == [err |-> e, user |-> NULL]

\* new User(...): AggregateRoot fields start at version 0, empty buffer
UserCtor(id, email, name, deletedAt, createdBy, updatedBy, deletedBy) ==
    IF ~validateEmail(email) THEN Err("ValidationError")
    ELSE IF ~validateName(name) THEN Err("ValidationError")
    ELSE Ok([id |-> id, email |-> email, name |-> name,
             deletedAt |-> deletedAt, createdBy |-> createdBy,
             updatedBy |-> updatedBy, deletedBy |-> deletedBy,
             version |-> 0, domainEvents |-> <<>>])

isDeleted(u) == u.deletedAt # NULL

\* addDomainEvent without its this._version++
addDomainEventUncounted(u, event) ==
    [u EXCEPT !.domainEvents = Append(@, event)]

addDomainEvent(u, event) ==
    [u EXCEPT !.domainEvents = Append(@, event), !.version = @ + 1]

clearDomainEvents(u) == [u EXCEPT !.domainEvents = <<>>]

\* applyEvent pushing the event the way addDomainEvent does
applyEventBuffered(u, event) ==
    [u EXCEPT !.domainEvents = Append(@, event), !.version = @ + 1]

applyEvent(u, event) == [u EXCEPT !.version = @ + 1]

UserCreate(id, email, name, createdBy) ==
    LET r == UserCtor(id, Trim(ToLowerCase(email)), Trim(name), NULL,
                      OrNull(createdBy), NULL, NULL)
    IN  IF r.err # "none" THEN r
        ELSE Ok(addDomainEvent(r.user,
                  BaseDomainEvent(id, "UserCreated",
                      [NoData EXCEPT !.email = r.user.email,
                                     !.name = r.user.name,
                                     !.createdBy = createdBy])))

\* updateName without the "name hasn't changed" return
updateNameAlwaysEmits(u, newName, updatedBy) ==
    IF isDeleted(u) THEN [err |-> "ValidationError", user |-> u]
    ELSE IF ~validateName(newName) THEN [err |-> "ValidationError", user |-> u]
    ELSE Ok(addDomainEvent(
              [u EXCEPT !.name = Trim(newName), !.updatedBy = OrNull(updatedBy)],
              BaseDomainEvent(u.id, "UserUpdated",
                  [NoData EXCEPT !.name = Trim(newName),
                                 !.previousValues = [name |-> u.name, email |-> NoStr],
                                 !.updatedBy = updatedBy])))

updateName(u, newName, updatedBy) ==
    IF isDeleted(u) THEN [err |-> "ValidationError", user |-> u]
    ELSE IF ~validateName(newName) THEN [err |-> "ValidationError", user |-> u]
    ELSE IF Trim(newName) = u.name THEN Ok(u)
    ELSE Ok(addDomainEvent(
              [u EXCEPT !.name = Trim(newName), !.updatedBy = OrNull(updatedBy)],
              BaseDomainEvent(u.id, "UserUpdated",
                  [NoData EXCEPT !.name = Trim(newName),
                                 !.previousValues = [name |-> u.name, email |-> NoStr],
                                 !.updatedBy = updatedBy])))

\* updateEmail without the isDeleted guard
updateEmailOnDeleted(u, newEmail, updatedBy) ==
    IF ~validateEmail(newEmail) THEN [err |-> "ValidationError", user |-> u]
    ELSE IF Trim(ToLowerCase(newEmail)) = u.email THEN Ok(u)
    ELSE Ok(addDomainEvent(
              [u EXCEPT !.email = Trim(ToLowerCase(newEmail)),
                        !.updatedBy = OrNull(updatedBy)],
              BaseDomainEvent(u.id, "UserUpdated",
                  [NoData EXCEPT !.email = Trim(ToLowerCase(newEmail)),
                                 !.previousValues = [name |-> NoStr, email |-> u.email],
                                 !.updatedBy = updatedBy])))

\* updateEmail reading this._email for the event after the assignment
updateEmailPreviousIsNew(u, newEmail, updatedBy) ==
    IF isDeleted(u) THEN [err |-> "ValidationError", user |-> u]
    ELSE IF ~validateEmail(newEmail) THEN [err |-> "ValidationError", user |-> u]
    ELSE IF Trim(ToLowerCase(newEmail)) = u.email THEN Ok(u)
    ELSE Ok(addDomainEvent(
              [u EXCEPT !.email = Trim(ToLowerCase(newEmail)),
                        !.updatedBy = OrNull(updatedBy)],
              BaseDomainEvent(u.id, "UserUpdated",
                  [NoData EXCEPT !.email = Trim(ToLowerCase(newEmail)),
                                 !.previousValues = [name |-> NoStr,
                                        email |-> Trim(ToLowerCase(newEmail))],
                                 !.updatedBy = updatedBy])))

updateEmail(u, newEmail, updatedBy) ==
    IF isDeleted(u) THEN [err |-> "ValidationError", user |-> u]
    ELSE IF ~validateEmail(newEmail) THEN [err |-> "ValidationError", user |-> u]
    ELSE IF Trim(ToLowerCase(newEmail)) = u.email THEN Ok(u)
    ELSE Ok(addDomainEvent(
              [u EXCEPT !.email = Trim(ToLowerCase(newEmail)),
                        !.updatedBy = OrNull(updatedBy)],
              BaseDomainEvent(u.id, "UserUpdated",
                  [NoData EXCEPT !.email = Trim(ToLowerCase(newEmail)),
                                 !.previousValues = [name |-> NoStr, email |-> u.email],
                                 !.updatedBy = updatedBy])))

\* delete without the "already deleted" return
deleteAgain(u, deletedBy) ==
    Ok(addDomainEvent(
         [u EXCEPT !.deletedAt = DateNow, !.deletedBy = OrNull(deletedBy)],
         BaseDomainEvent(u.id, "UserDeleted",
             [NoData EXCEPT !.email = u.email, !.name = u.name,
                            !.deletedAt = DateNow,
                            !.deletedBy = deletedBy])))

delete(u, deletedBy) ==
    IF isDeleted(u) THEN Ok(u)
    ELSE Ok(addDomainEvent(
              [u EXCEPT !.deletedAt = DateNow, !.deletedBy = OrNull(deletedBy)],
              BaseDomainEvent(u.id, "UserDeleted",
                  [NoData EXCEPT !.email = u.email, !.name = u.name,
                                 !.deletedAt = DateNow,
                                 !.deletedBy = deletedBy])))

\* --------------------------------------------------- JSONB column round trip
\* JSON.stringify drops undefined members and writes a Date as an ISO string;
\* a member that is read back and was dropped is undefined again.
ToJson(v) == IF v = DateNow THEN "IsoString" ELSE v

JsonEventData(d) == [d EXCEPT !.deletedAt = ToJson(@)]

\* ------------------------------------------------------------------- replay
fromCreationEvent(event) ==
    IF event.eventType # "UserCreated" THEN Err("Error")
    ELSE UserCtor(event.aggregateId,
                  IF ~Truthy(event.eventData.email)
                     THEN <<"u", "@", "e", ".", "c">> ELSE event.eventData.email,
                  IF ~Truthy(event.eventData.name)
                     THEN <<"U", "n">> ELSE event.eventData.name,
                  NULL, OrNull(event.eventData.createdBy), NULL, NULL)

whenUserCreated(u, event) ==
    [u EXCEPT !.email = event.eventData.email,
              !.name = event.eventData.name,
              !.deletedAt = NULL]

whenUserUpdated(u, event) ==
    [u EXCEPT !.email = IF event.eventData.email # NoStr
                           THEN event.eventData.email ELSE @,
              !.name = IF event.eventData.name # NoStr
                          THEN event.eventData.name ELSE @]

whenUserDeleted(u, event) ==
    [u EXCEPT !.deletedAt = event.eventData.deletedAt]

\* when with a default branch that ignores the event
whenIgnoringUnknown(u, event) ==
    CASE event.eventType = "UserCreated" -> Ok(whenUserCreated(u, event))
      [] event.eventType = "UserUpdated" -> Ok(whenUserUpdated(u, event))
      [] event.eventType = "UserDeleted" -> Ok(whenUserDeleted(u, event))
      [] OTHER -> Ok(u)

when(u, event) ==
    CASE event.eventType = "UserCreated" -> Ok(whenUserCreated(u, event))
      [] event.eventType = "UserUpdated" -> Ok(whenUserUpdated(u, event))
      [] event.eventType = "UserDeleted" -> Ok(whenUserDeleted(u, event))
      [] OTHER -> [err |-> "Error", user |-> u]

\* events.forEach of replayEvents, from index i on; r is the result so far
RECURSIVE ReplayFrom(_, _, _)
ReplayFrom(r, events, i) ==
    IF r.err # "none" \/ i > Len(events) THEN r
    ELSE IF i = 1 THEN ReplayFrom(Ok(applyEvent(r.user, events[1])), events, 2)
    ELSE LET w == when(r.user, events[i])
         IN  IF w.err # "none" THEN Err("Error")
             ELSE ReplayFrom(Ok(applyEvent(w.user, events[i])), events, i + 1)

\* replayEvents without the length check, handing back a blank aggregate
replayEventsOfNothing(events) ==
    IF Len(events) = 0
    THEN Ok([id |-> 0, email |-> NoStr, name |-> NoStr, deletedAt |-> NULL,
             createdBy |-> NULL, updatedBy |-> NULL, deletedBy |-> NULL,
             version |-> 0, domainEvents |-> <<>>])
    ELSE ReplayFrom(fromCreationEvent(events[1]), events, 1)

replayEvents(events) ==
    IF Len(events) = 0 THEN Err("Error")
    ELSE ReplayFrom(fromCreationEvent(events[1]), events, 1)

\* -------------------------------------------------------------- event store
\* saveEvents, events.map((event, index) => ...): the row written for each event
eventRecords(events, expectedVersion) ==
    [i \in 1..Len(events) |->
        [aggregateId |-> events[i].aggregateId,
         eventType |-> events[i].eventType,
         eventVersion |-> expectedVersion + (i - 1) + 1,
         eventData |-> JsonEventData(events[i].eventData)]]

\* -------------------------------------------------------------------- state
VARIABLES
    eventLog,   \* event_logs rows in position order
    users,      \* users snapshot table: id -> row, for the ids that have a row
    outbox,     \* outbox_events rows in creation order
    proc,       \* per request handler: position in its use case and its locals
    nextId,     \* aggregate ids handed out so far
    ops,        \* use-case executions started so far
    dom,        \* one in-memory aggregate driven by direct calls, and its stream
    clock,      \* the database clock, one tick per write to outbox_events
    poller,     \* the outbox delivery poller: its position and its batch
    rp,         \* the last direct call of replayEvents and its result
    st,         \* the last direct call of saveEvents and its result
    cache,      \* the Redis keys of the user list: key -> cached response
    lst         \* the last list request and its response

sysVars == <<eventLog, users, outbox, proc, nextId, ops, clock, poller, rp,
             st, cache, lst>>
vars == <<eventLog, users, outbox, proc, nextId, ops, dom, clock, poller, rp,
          st, cache, lst>>

Procs == 1..NumProcs
Ids == 1..MaxUsers

\* ---------------------------------------------------- the aggregate, directly
NoUser ==
    [id |-> 0, email |-> NoStr, name |-> NoStr, deletedAt |-> NULL,
     createdBy |-> NULL, updatedBy |-> NULL, deletedBy |-> NULL,
     version |-> 0, domainEvents |-> <<>>]

NoCall ==
    [op |-> "none", err |-> "none", str |-> NoStr, actor |-> UNDEFINED,
     before |-> NoUser]

Call(op, err, str, actor, before) ==
    [op |-> op, err |-> err, str |-> str, actor |-> actor, before |-> before]

Fields(u) ==
    [id |-> u.id, email |-> u.email, name |-> u.name,
     deletedAt |-> u.deletedAt, isDeleted |-> isDeleted(u),
     createdBy |-> u.createdBy, updatedBy |-> u.updatedBy,
     deletedBy |-> u.deletedBy, version |-> u.version]

\* the fields of the aggregate after each event it has emitted since before
EmittedStates(before, after) ==
    IF Len(after.domainEvents) > Len(before.domainEvents)
    THEN <<Fields(after)>> ELSE <<>>

DomInit ==
    dom = [created |-> FALSE, user |-> NoUser, stored |-> <<>>,
           calls |-> 0, last |-> NoCall, states |-> <<>>]

DomCreate(email, name, createdBy) ==
    /\ ~dom.created
    /\ dom.calls < MaxCalls
    /\ LET r == UserCreate(1, email, name, createdBy)
       IN  dom' = [dom EXCEPT
                     !.created = r.err = "none",
                     !.user = IF r.err = "none" THEN r.user ELSE NoUser,
                     !.states = IF r.err = "none" THEN <<Fields(r.user)>> ELSE <<>>,
                     !.calls = @ + 1,
                     !.last = Call("create", r.err, email, createdBy, NoUser)]
    /\ UNCHANGED sysVars

DomUpdateName(newName, updatedBy) ==
    /\ dom.created
    /\ dom.calls < MaxCalls
    /\ LET r == updateName(dom.user, newName, updatedBy)
       IN  dom' = [dom EXCEPT
                     !.user = r.user,
                     !.states = @ \o EmittedStates(dom.user, r.user),
                     !.calls = @ + 1,
                     !.last = Call("updateName", r.err, newName, updatedBy, dom.user)]
    /\ UNCHANGED sysVars

DomUpdateEmail(newEmail, updatedBy) ==
    /\ dom.created
    /\ dom.calls < MaxCalls
    /\ LET r == updateEmail(dom.user, newEmail, updatedBy)
       IN  dom' = [dom EXCEPT
                     !.user = r.user,
                     !.states = @ \o EmittedStates(dom.user, r.user),
                     !.calls = @ + 1,
                     !.last = Call("updateEmail", r.err, newEmail, updatedBy, dom.user)]
    /\ UNCHANGED sysVars

DomDelete(deletedBy) ==
    /\ dom.created
    /\ dom.calls < MaxCalls
    /\ LET r == delete(dom.user, deletedBy)
       IN  dom' = [dom EXCEPT
                     !.user = r.user,
                     !.states = @ \o EmittedStates(dom.user, r.user),
                     !.calls = @ + 1,
                     !.last = Call("delete", r.err, NoStr, deletedBy, dom.user)]
    /\ UNCHANGED sysVars

\* repository save with nobody else writing: append the buffer at
\* version - buffer length, then clearDomainEvents
DomSave ==
    /\ dom.created
    /\ Len(dom.user.domainEvents) > 0
    /\ dom' = [dom EXCEPT
                 !.stored = @ \o eventRecords(dom.user.domainEvents,
                                  dom.user.version - Len(dom.user.domainEvents)),
                 !.user = clearDomainEvents(@),
                 !.last = Call("save", "none", NoStr, UNDEFINED, dom.user)]
    /\ UNCHANGED sysVars

\* findById on a stored stream: the aggregate is the replayed one from here on
DomLoad ==
    /\ dom.created
    /\ Len(dom.user.domainEvents) = 0
    /\ Len(dom.stored) > 0
    /\ dom.last.op # "load"
    /\ replayEvents(dom.stored).err = "none"
    /\ dom' = [dom EXCEPT
                 !.user = replayEvents(dom.stored).user,
                 !.last = Call("load", "none", NoStr, UNDEFINED, dom.user)]
    /\ UNCHANGED sysVars

DomNext ==
    \/ \E email \in DomEmails, name \in DomNames, a \in Actors : DomCreate(email, name, a)
    \/ \E name \in DomNames, a \in Actors : DomUpdateName(name, a)
    \/ \E email \in DomEmails, a \in Actors : DomUpdateEmail(email, a)
    \/ \E a \in Actors : DomDelete(a)
    \/ DomSave
    \/ DomLoad

\* ------------------------------------------------------- event store reads
MaxVersion(rows) ==
    IF rows = <<>> THEN 0
    ELSE CHOOSE v \in {rows[i].eventVersion : i \in DOMAIN rows} :
            \A i \in DOMAIN rows : rows[i].eventVersion <= v

\* orderBy: { eventVersion: 'asc' }; rows of equal eventVersion stay in
\* position order
RECURSIVE OrderByVersion(_, _)
OrderByVersion(rows, v) ==
    IF v > MaxVersion(rows) THEN <<>>
    ELSE SelectSeq(rows, LAMBDA r : r.eventVersion = v) \o OrderByVersion(rows, v + 1)

getEvents(aggregateId) ==
    OrderByVersion(SelectSeq(eventLog, LAMBDA r : r.aggregateId = aggregateId), 0)

\* findFirst({ where: { aggregateId }, orderBy: { eventVersion: 'desc' } })
\* followed by lastEvent?.eventVersion || 0
currentVersion(aggregateId) ==
    MaxVersion(SelectSeq(eventLog, LAMBDA r : r.aggregateId = aggregateId))

\* the check written with < instead of !==
versionConflictBelow(current, expectedVersion) == current < expectedVersion

\* if (currentVersion !== expectedVersion) throw ...
versionConflict(current, expectedVersion) == current # expectedVersion

\* --------------------------------------------------------- repository reads
NotFound == [found |-> FALSE, err |-> "none", user |-> NoUser]
Found(u) == [found |-> TRUE, err |-> "none", user |-> u]
Thrown(e) == [found |-> FALSE, err |-> e, user |-> NoUser]

userFromRecord(id) ==
    UserCtor(id, users[id].email, users[id].name, users[id].deletedAt,
             users[id].createdBy, users[id].updatedBy, users[id].deletedBy)

\* the fallback as findUnique({ where: { id } })
findByIdAnySnapshot(id) ==
    IF Len(getEvents(id)) > 0
    THEN LET r == replayEvents(getEvents(id))
         IN  IF r.err = "none" THEN Found(r.user) ELSE Thrown(r.err)
    ELSE IF id \in DOMAIN users
         THEN LET r == userFromRecord(id)
              IN  IF r.err = "none" THEN Found(r.user) ELSE Thrown(r.err)
         ELSE NotFound

findById(id) ==
    IF Len(getEvents(id)) > 0
    THEN LET r == replayEvents(getEvents(id))
         IN  IF r.err = "none" THEN Found(r.user) ELSE Thrown(r.err)
    ELSE IF id \in DOMAIN users /\ users[id].deletedAt = NULL
         THEN LET r == userFromRecord(id)
              IN  IF r.err = "none" THEN Found(r.user) ELSE Thrown(r.err)
         ELSE NotFound

\* findUnique({ where: { email, deletedAt: null } }), then findById of that row
findByEmail(email) ==
    LET hit == {id \in DOMAIN users :
                   users[id].email = email /\ users[id].deletedAt = NULL}
    IN  IF hit = {} THEN NotFound
        ELSE findById(CHOOSE id \in hit : TRUE)

getUserHistory(id) ==
    [i \in 1..Len(getEvents(id)) |->
        [eventType |-> getEvents(id)[i].eventType,
         eventData |-> getEvents(id)[i].eventData,
         version |-> getEvents(id)[i].eventVersion]]

\* ------------------------------------------------------------ use cases
NoReq == [id |-> 0, email |-> NoStr, name |-> NoStr, updatedBy |-> UNDEFINED]

IdleProc ==
    [pc |-> "idle", kind |-> "none", req |-> NoReq, user |-> NoUser,
     events |-> <<>>, expected |-> 0, actual |-> 0, seRead |-> FALSE,
     aggId |-> 0, i |-> 0, outcome |-> "none", failedIn |-> "none", target |-> "none",
     conflict |-> [expected |-> 0, actual |-> 0],
     appended |-> {}, outboxed |-> {}, wroteSnapshot |-> FALSE, changed |-> 0,
     buffered |-> 0]

CreateEmails == {EmailA, EmailB}
CreateNames == {NameAl}
UpdateEmails == {NoStr, EmailB}
UpdateNames == {NoStr, NameBo}
UpdateActors == {Actor1}
NonexistentId == 0
TargetIds == Ids \cup {NonexistentId}

\* a request names an id that was handed out, or one that never was
Requestable(id) == id <= nextId

Free(p) == proc[p].pc \in {"idle", "done"}

\* handlers are interchangeable: a request takes the first free one
CanStart(p) ==
    /\ Free(p)
    /\ \A q \in Procs : q < p => ~Free(q)
    /\ ops < MaxOps

\* what the target of an update or delete is when the use case starts
TargetState(id) ==
    LET hasDeleted == \E i \in DOMAIN eventLog :
                         /\ eventLog[i].aggregateId = id
                         /\ eventLog[i].eventType = "UserDeleted"
        hasEvents == \E i \in DOMAIN eventLog : eventLog[i].aggregateId = id
        hasRow == id \in DOMAIN users
    IN  IF hasDeleted
        THEN IF hasRow /\ users[id].deletedAt # NULL THEN "deleted" ELSE "deleting"
        ELSE IF hasEvents THEN "live"
        ELSE IF hasRow /\ users[id].deletedAt = NULL THEN "live"
        ELSE IF hasRow THEN "deleted"
        ELSE "absent"

\* The use case throws: PrismaUnitOfWork.execute runs fn inside
\* prisma.$transaction without handing fn the transaction client, and every
\* repository writes through the shared client, so the rollback of that
\* transaction undoes none of the rows fn has written.
Throw(pr, e, where) ==
    [pr EXCEPT !.pc = "done", !.outcome = e, !.failedIn = where,
               !.buffered = Len(pr.user.domainEvents),
               !.req = NoReq, !.user = NoUser, !.events = <<>>, !.i = 0]

\* the use case returns; its locals are gone
Return(pr) ==
    [pr EXCEPT !.pc = "done", !.outcome = "ok",
               !.req = NoReq, !.user = NoUser, !.events = <<>>, !.i = 0]

Begin(kind, req) ==
    [IdleProc EXCEPT !.kind = kind, !.req = req]

\* [...user.domainEvents], then the first await of save
ToSave(pr, u) ==
    [pr EXCEPT !.pc = "save_check", !.user = u, !.aggId = u.id,
               !.events = u.domainEvents, !.req = NoReq]

\* CreateUserUseCaseImpl.execute up to its first write
CreateStart(p, email, name) ==
    /\ CanStart(p)
    /\ nextId < MaxUsers
    /\ ops' = ops + 1
    /\ LET pr == Begin("create", [NoReq EXCEPT !.email = email, !.name = name])
           existing == findByEmail(email)
           c == UserCreate(nextId + 1, email, name, UNDEFINED)
       IN  IF existing.err # "none"
             THEN /\ proc' = [proc EXCEPT ![p] = Throw(pr, existing.err, "usecase")]
                  /\ UNCHANGED nextId
           ELSE IF existing.found
             THEN /\ proc' = [proc EXCEPT ![p] = Throw(pr, "ConflictError", "usecase")]
                  /\ UNCHANGED nextId
           ELSE IF c.err # "none"
             THEN /\ proc' = [proc EXCEPT ![p] = Throw(pr, c.err, "usecase")]
                  /\ UNCHANGED nextId
           ELSE /\ proc' = [proc EXCEPT ![p] = ToSave(pr, c.user)]
                /\ nextId' = nextId + 1
    /\ UNCHANGED <<eventLog, users, outbox, dom, clock, poller, rp, st, cache, lst>>

\* the two conditional mutations of UpdateUserUseCaseImpl.execute
UpdateFields(pr, u) ==
    LET e == IF Truthy(pr.req.email) /\ pr.req.email # u.email
                THEN updateEmail(u, pr.req.email, pr.req.updatedBy)
                ELSE Ok(u)
        n == IF e.err # "none" THEN e
             ELSE IF Truthy(pr.req.name) /\ pr.req.name # e.user.name
                THEN updateName(e.user, pr.req.name, pr.req.updatedBy)
                ELSE e
    IN  IF n.err # "none" THEN Throw(pr, n.err, "usecase")
        ELSE [ToSave(pr, n.user) EXCEPT
                 !.changed = (IF n.user.email # u.email THEN 1 ELSE 0)
                             + (IF n.user.name # u.name THEN 1 ELSE 0)]

\* UpdateUserUseCaseImpl.execute: findById, and on to the email check
UpdateStart(p, id, email, name, updatedBy) ==
    /\ CanStart(p)
    /\ Requestable(id)
    /\ ops' = ops + 1
    /\ LET pr == [Begin("update", [id |-> id, email |-> email, name |-> name,
                                   updatedBy |-> updatedBy])
                    EXCEPT !.target = TargetState(id)]
           existing == findById(id)
       IN  proc' = [proc EXCEPT ![p] =
              IF existing.err # "none" THEN Throw(pr, existing.err, "usecase")
              ELSE IF ~existing.found THEN Throw(pr, "NotFoundError", "usecase")
              ELSE IF Truthy(email) /\ email # existing.user.email
                   THEN [pr EXCEPT !.pc = "upd_check", !.user = existing.user]
              ELSE UpdateFields(pr, existing.user)]
    /\ UNCHANGED <<eventLog, users, outbox, nextId, dom, clock, poller, rp, st, cache, lst>>

\* findByEmail(request.email), then the mutations
UpdateCheckEmail(p) ==
    /\ proc[p].pc = "upd_check"
    /\ LET pr == proc[p]
           other == findByEmail(pr.req.email)
       IN  proc' = [proc EXCEPT ![p] =
              IF other.err # "none" THEN Throw(pr, other.err, "usecase")
              ELSE IF other.found /\ other.user.id # pr.req.id
                   THEN Throw(pr, "ConflictError", "usecase")
              ELSE UpdateFields(pr, pr.user)]
    /\ UNCHANGED <<eventLog, users, outbox, nextId, ops, dom, clock, poller, rp, st, cache, lst>>

\* DeleteUserUseCaseImpl.execute up to its first write
DeleteStart(p, id) ==
    /\ CanStart(p)
    /\ Requestable(id)
    /\ ops' = ops + 1
    /\ LET pr == [Begin("delete", [NoReq EXCEPT !.id = id])
                    EXCEPT !.target = TargetState(id)]
           existing == findById(id)
       IN  proc' = [proc EXCEPT ![p] =
              IF existing.err # "none" THEN Throw(pr, existing.err, "usecase")
              ELSE IF ~existing.found THEN Throw(pr, "NotFoundError", "usecase")
              ELSE IF isDeleted(existing.user) THEN Throw(pr, "NotFoundError", "usecase")
              ELSE ToSave(pr, delete(existing.user, UNDEFINED).user)]
    /\ UNCHANGED <<eventLog, users, outbox, nextId, dom, clock, poller, rp, st, cache, lst>>

\* ------------------------------------------- EventSourcedUserRepository.save
\* the email pre-check
SaveCheckEmail(p) ==
    /\ proc[p].pc = "save_check"
    /\ LET pr == proc[p]
           existingUser == findByEmail(pr.user.email)
       IN  proc' = [proc EXCEPT ![p] =
              IF existingUser.err # "none" THEN Throw(pr, existingUser.err, "save")
              ELSE IF existingUser.found /\ existingUser.user.id # pr.user.id
                   THEN Throw(pr, "ConflictError", "save")
              ELSE IF Len(pr.user.domainEvents) > 0
                   THEN [pr EXCEPT !.pc = "se_read",
                            !.expected = pr.user.version - Len(pr.user.domainEvents)]
              ELSE [pr EXCEPT !.pc = "upsert"]]
    /\ UNCHANGED <<eventLog, users, outbox, nextId, ops, dom, clock, poller, rp, st, cache, lst>>

\* save calling user.clearDomainEvents() before saveEvents
SaveEventsReadClearingFirst(p) ==
    /\ proc[p].pc = "se_read"
    /\ LET pr == [proc[p] EXCEPT !.seRead = TRUE,
                                 !.actual = currentVersion(proc[p].aggId)]
       IN  proc' = [proc EXCEPT ![p] =
              IF versionConflict(pr.actual, pr.expected)
              THEN [Throw([pr EXCEPT !.user = clearDomainEvents(pr.user)],
                          "ConcurrencyConflict", "save") EXCEPT
                       !.conflict = [expected |-> pr.expected, actual |-> pr.actual]]
              ELSE [pr EXCEPT !.pc = "se_insert"]]
    /\ UNCHANGED <<eventLog, users, outbox, nextId, ops, dom, clock, poller, rp, st, cache, lst>>

\* save catching the concurrency conflict of saveEvents and going on
SaveEventsReadSwallowing(p) ==
    /\ proc[p].pc = "se_read"
    /\ LET pr == [proc[p] EXCEPT !.seRead = TRUE,
                                 !.actual = currentVersion(proc[p].aggId)]
       IN  proc' = [proc EXCEPT ![p] =
              IF versionConflict(pr.actual, pr.expected)
              THEN [pr EXCEPT !.pc = "upsert", !.user = clearDomainEvents(pr.user)]
              ELSE [pr EXCEPT !.pc = "se_insert"]]
    /\ UNCHANGED <<eventLog, users, outbox, nextId, ops, dom, clock, poller, rp, st, cache, lst>>

\* saveEvents, inside its own transaction: read the highest version, compare
SaveEventsRead(p) ==
    /\ proc[p].pc = "se_read"
    /\ LET pr == [proc[p] EXCEPT !.seRead = TRUE,
                                 !.actual = currentVersion(proc[p].aggId)]
       IN  proc' = [proc EXCEPT ![p] =
              IF versionConflict(pr.actual, pr.expected)
              THEN [Throw(pr, "ConcurrencyConflict", "save") EXCEPT
                       !.conflict = [expected |-> pr.expected, actual |-> pr.actual]]
              ELSE [pr EXCEPT !.pc = "se_insert"]]
    /\ UNCHANGED <<eventLog, users, outbox, nextId, ops, dom, clock, poller, rp, st, cache, lst>>

\* saveEvents writing the stream of the aggregate anew
SaveEventsInsertRewriting(p) ==
    /\ proc[p].pc = "se_insert"
    /\ LET pr == proc[p]
           rows == eventRecords(pr.user.domainEvents, pr.expected)
           kept == SelectSeq(eventLog,
                             LAMBDA r : \/ r.aggregateId # pr.aggId
                                        \/ r.eventVersion <= pr.expected - 1)
       IN  /\ eventLog' = kept \o rows
           /\ proc' = [proc EXCEPT ![p] =
                 [pr EXCEPT !.pc = "upsert",
                            !.user = clearDomainEvents(pr.user),
                            !.appended = (Len(kept) + 1)..(Len(kept) + Len(rows))]]
    /\ UNCHANGED <<users, outbox, nextId, ops, dom, clock, poller, rp, st, cache, lst>>

\* saveEvents: createMany and commit; then user.clearDomainEvents()
SaveEventsInsert(p) ==
    /\ proc[p].pc = "se_insert"
    /\ LET pr == proc[p]
           rows == eventRecords(pr.user.domainEvents, pr.expected)
       IN  /\ eventLog' = eventLog \o rows
           /\ proc' = [proc EXCEPT ![p] =
                 [pr EXCEPT !.pc = "upsert",
                            !.user = clearDomainEvents(pr.user),
                            !.appended = (Len(eventLog) + 1)..(Len(eventLog) + Len(rows))]]
    /\ UNCHANGED <<users, outbox, nextId, ops, dom, clock, poller, rp, st, cache, lst>>

\* upsert, create branch
createRow(u) ==
    [email |-> u.email, name |-> u.name, version |-> u.version,
     deletedAt |-> u.deletedAt, createdBy |-> u.createdBy,
     updatedBy |-> u.updatedBy, deletedBy |-> u.deletedBy]

\* the update branch without its version member
updateRowStaleVersion(u, row) ==
    [email |-> u.email, name |-> u.name, version |-> row.version,
     deletedAt |-> u.deletedAt, createdBy |-> row.createdBy,
     updatedBy |-> u.updatedBy, deletedBy |-> u.deletedBy]

\* upsert, update branch: created_by keeps the value of the row
updateRow(u, row) ==
    [email |-> u.email, name |-> u.name, version |-> u.version,
     deletedAt |-> u.deletedAt, createdBy |-> row.createdBy,
     updatedBy |-> u.updatedBy, deletedBy |-> u.deletedBy]

\* users_email_key: a unique index over every row, deleted rows included
emailTaken(u) ==
    \E id \in DOMAIN users : id # u.id /\ users[id].email = u.email

\* prisma.user.upsert, and the P2002 translation of the catch block
Upsert(p) ==
    /\ proc[p].pc = "upsert"
    /\ LET pr == proc[p]
       IN  IF emailTaken(pr.user)
           THEN /\ proc' = [proc EXCEPT ![p] = Throw(pr, "ConflictError", "save")]
                /\ UNCHANGED users
           ELSE /\ users' = [id \in DOMAIN users \cup {pr.user.id} |->
                               IF id = pr.user.id
                               THEN IF id \in DOMAIN users
                                    THEN updateRow(pr.user, users[id])
                                    ELSE createRow(pr.user)
                               ELSE users[id]]
                /\ proc' = [proc EXCEPT ![p] =
                      IF Len(pr.events) > 0
                      THEN [pr EXCEPT !.pc = "outbox", !.i = 1, !.wroteSnapshot = TRUE]
                      ELSE Return([pr EXCEPT !.wroteSnapshot = TRUE])]
    /\ UNCHANGED <<eventLog, outbox, nextId, ops, dom, clock, poller, rp, st, cache, lst>>

outboxType(kind) ==
    CASE kind = "create" -> "user.created"
      [] kind = "update" -> "user.updated"
      [] OTHER -> "user.deleted"

\* OutboxEvent.create(type, { id, version, ...domainEvent.eventData }) as the
\* row that outboxRepository.save inserts; user.created carries no version
outboxEntry(kind, u, event) ==
    [eventType |-> outboxType(kind),
     eventData |-> [id |-> u.id,
                    version |-> IF kind = "create" THEN 0 ELSE u.version,
                    data |-> JsonEventData(event.eventData)],
     processed |-> FALSE, processedAt |-> NULL]

NoTime == <<>>              \* a null timestamp column; <<t>> is the instant t

\* prisma.outboxEvent.create: the row of an OutboxEvent, created_at from the
\* column default
outboxRow(event, now) ==
    [eventType |-> event.eventType, eventData |-> event.eventData,
     processed |-> event.processed,
     processedAt |-> IF event.processedAt = NULL THEN NoTime
                     ELSE <<event.processedAt>>,
     createdAt |-> now]

\* the loop over the copied events leaving after its first save
OutboxSaveFirstOnly(p) ==
    /\ proc[p].pc = "outbox"
    /\ LET pr == proc[p]
           entry == outboxEntry(pr.kind, pr.user, pr.events[pr.i])
       IN  /\ outbox' = Append(outbox, outboxRow(entry, clock))
           /\ clock' = clock + 1
           /\ proc' = [proc EXCEPT ![p] =
                 Return([pr EXCEPT !.outboxed = @ \cup {Len(outbox) + 1}])]
    /\ UNCHANGED <<eventLog, users, nextId, ops, dom, poller, rp, st, cache, lst>>

\* outboxRepository.save for the i-th copied event
OutboxSave(p) ==
    /\ proc[p].pc = "outbox"
    /\ LET pr == proc[p]
           entry == outboxEntry(pr.kind, pr.user, pr.events[pr.i])
       IN  /\ outbox' = Append(outbox, outboxRow(entry, clock))
           /\ clock' = clock + 1
           /\ proc' = [proc EXCEPT ![p] =
                 IF pr.i = Len(pr.events)
                 THEN Return([pr EXCEPT !.outboxed = @ \cup {Len(outbox) + 1}])
                 ELSE [pr EXCEPT !.i = @ + 1,
                                 !.outboxed = @ \cup {Len(outbox) + 1}]]
    /\ UNCHANGED <<eventLog, users, nextId, ops, dom, poller, rp, st, cache, lst>>

\* the database rejects the outbox insert (connection lost, timeout)
OutboxSaveFails(p) ==
    /\ proc[p].pc = "outbox"
    /\ proc' = [proc EXCEPT ![p] = Throw(proc[p], "Error", "outbox")]
    /\ UNCHANGED <<eventLog, users, outbox, nextId, ops, dom, clock, poller, rp, st, cache, lst>>

\* the aggregate after User.create('a@x.c', 'Al')
FirstUser == UserCreate(1, EmailA, NameAl, UNDEFINED).user

\* --------------------------------------------------- PrismaOutboxRepository
\* the ordering written as createdAt: 'desc'
RECURSIVE OrderByCreatedAtDesc(_, _)
OrderByCreatedAtDesc(rows, ids) ==
    IF ids = {} THEN <<>>
    ELSE LET first == CHOOSE i \in ids :
                         \A j \in ids :
                            \/ rows[i].createdAt > rows[j].createdAt
                            \/ (rows[i].createdAt = rows[j].createdAt /\ i >= j)
         IN  <<first>> \o OrderByCreatedAtDesc(rows, ids \ {first})

\* orderBy: { createdAt: 'asc' } over the rows named by ids
RECURSIVE OrderByCreatedAt(_, _)
OrderByCreatedAt(rows, ids) ==
    IF ids = {} THEN <<>>
    ELSE LET first == CHOOSE i \in ids :
                         \A j \in ids :
                            \/ rows[i].createdAt < rows[j].createdAt
                            \/ (rows[i].createdAt = rows[j].createdAt /\ i <= j)
         IN  <<first>> \o OrderByCreatedAt(rows, ids \ {first})

\* the filter written as processed: true
findProcessed(rows) ==
    OrderByCreatedAt(rows, {i \in DOMAIN rows : rows[i].processed = TRUE})

\* findMany({ where: { processed: false }, orderBy: { createdAt: 'asc' } });
\* an entry is named by its row
findUnprocessed(rows) ==
    OrderByCreatedAt(rows, {i \in DOMAIN rows : rows[i].processed = FALSE})

\* the update written without its where clause
markAllAsProcessed(rows, eventId, now) ==
    [i \in DOMAIN rows |->
        [rows[i] EXCEPT !.processed = TRUE, !.processedAt = <<now>>]]

\* the update flipping the flag instead of setting it
markAsToggled(rows, eventId, now) ==
    [rows EXCEPT ![eventId].processed = ~@, ![eventId].processedAt = <<now>>]

\* update({ where: { id }, data: { processed: true, processedAt: new Date() } })
markAsProcessed(rows, eventId, now) ==
    [rows EXCEPT ![eventId].processed = TRUE, ![eventId].processedAt = <<now>>]

\* ------------------------------------------------------ the delivery poller
\* The poller is not part of the repository; it is the loop the outbox
\* contract describes: findUnprocessed, then per entry attempt delivery,
\* markAsProcessed on success, leave the entry for the next round on failure.
IdlePoller ==
    [pc |-> "idle", batch |-> <<>>, k |-> 0, delivered |-> {},
     remarks |-> 0, lastOp |-> "none", lastId |-> 0]

EntryIds == 1..MaxEntries
SavedKinds == {"update"}

\* the event a use case of that kind hands to OutboxEvent.create
SavedEvent(kind) ==
    CASE kind = "create" -> FirstUser.domainEvents[1]
      [] kind = "update" ->
            updateName(clearDomainEvents(FirstUser), NameBo, Actor1).user.domainEvents[1]
      [] OTHER -> delete(clearDomainEvents(FirstUser), UNDEFINED).user.domainEvents[1]

\* the entries left to look at after position k of the batch
PollAdvance(po) ==
    IF po.k >= Len(po.batch)
    THEN [po EXCEPT !.pc = "idle", !.batch = <<>>, !.k = 0]
    ELSE [po EXCEPT !.pc = "deliver", !.k = @ + 1]

\* a use case saves one more entry while the poller runs
PollSave(kind) ==
    /\ Len(outbox) < MaxEntries
    /\ outbox' = Append(outbox,
                    outboxRow(outboxEntry(kind, FirstUser, SavedEvent(kind)), clock))
    /\ clock' = clock + 1
    /\ poller' = [poller EXCEPT !.lastOp = "save", !.lastId = Len(outbox) + 1]
    /\ UNCHANGED <<eventLog, users, proc, nextId, ops, dom, rp, st, cache, lst>>

PollFind ==
    /\ poller.pc = "idle"
    /\ LET batch == findUnprocessed(outbox)
       IN  poller' = [poller EXCEPT
                        !.pc = IF batch = <<>> THEN "idle" ELSE "deliver",
                        !.batch = batch,
                        !.k = IF batch = <<>> THEN 0 ELSE 1,
                        !.lastOp = "find", !.lastId = 0]
    /\ UNCHANGED <<eventLog, users, outbox, proc, nextId, ops, dom, clock, rp, st, cache, lst>>

\* the delivery of entry id succeeds
PollDeliverOk(id) ==
    /\ poller.pc = "deliver"
    /\ poller.batch[poller.k] = id
    /\ poller' = [poller EXCEPT !.pc = "mark", !.delivered = @ \cup {id},
                                !.lastOp = "deliverOk", !.lastId = id]
    /\ UNCHANGED <<eventLog, users, outbox, proc, nextId, ops, dom, clock, rp, st, cache, lst>>

\* the delivery fails: the entry is left as it is
PollDeliverFail ==
    /\ poller.pc = "deliver"
    /\ poller' = [PollAdvance(poller) EXCEPT
                     !.lastOp = "deliverFail", !.lastId = poller.batch[poller.k]]
    /\ UNCHANGED <<eventLog, users, outbox, proc, nextId, ops, dom, clock, rp, st, cache, lst>>

PollMark ==
    /\ poller.pc = "mark"
    /\ outbox' = markAsProcessed(outbox, poller.batch[poller.k], clock)
    /\ clock' = clock + 1
    /\ poller' = [PollAdvance(poller) EXCEPT
                     !.lastOp = "mark", !.lastId = poller.batch[poller.k]]
    /\ UNCHANGED <<eventLog, users, proc, nextId, ops, dom, rp, st, cache, lst>>

\* the poller marks an entry it has delivered and marked before
PollMarkAgain(id) ==
    /\ poller.pc = "idle"
    /\ id \in DOMAIN outbox
    /\ id \in poller.delivered
    /\ outbox[id].processed
    /\ poller.remarks < MaxRemarks
    /\ outbox' = markAsProcessed(outbox, id, clock)
    /\ clock' = clock + 1
    /\ poller' = [poller EXCEPT !.remarks = @ + 1,
                                !.lastOp = "remark", !.lastId = id]
    /\ UNCHANGED <<eventLog, users, proc, nextId, ops, dom, rp, st, cache, lst>>

OutboxNext ==
    \/ \E kind \in SavedKinds : PollSave(kind)
    \/ PollFind
    \/ \E id \in EntryIds : PollDeliverOk(id)
    \/ PollDeliverFail
    \/ PollMark
    \/ \E id \in EntryIds : PollMarkAgain(id)

\* fair polling, and deliveries that eventually succeed
PollFairness ==
    /\ WF_vars(PollFind)
    /\ WF_vars(PollMark)
    /\ WF_vars(PollDeliverFail \/ \E id \in EntryIds : PollDeliverOk(id))
    /\ \A id \in EntryIds : SF_vars(PollDeliverOk(id))

\* -------------------------------------------------- replayEvents, directly
\* rows as getEvents hands them to replayEvents
RowCreated == eventRecords(FirstUser.domainEvents, 0)[1]
RowRenamed ==
    eventRecords(updateName(clearDomainEvents(FirstUser), NameBo, Actor1)
                    .user.domainEvents, 1)[1]
RowEmailed ==
    eventRecords(updateEmail(clearDomainEvents(FirstUser), EmailB, Actor1)
                    .user.domainEvents, 1)[1]
RowDeleted ==
    eventRecords(delete(clearDomainEvents(FirstUser), Actor1).user.domainEvents, 1)[1]
\* a row whose event_type no handler of User knows
RowArchived == [RowRenamed EXCEPT !.eventType = "UserArchived"]

ReplayRows == {RowCreated, RowRenamed, RowEmailed, RowDeleted, RowArchived}
ReplayInputs == UNION {[1..n -> ReplayRows] : n \in 0..MaxReplayLen}

NoReplay == [called |-> FALSE, events |-> <<>>, err |-> "none", user |-> NoUser]

ReplayCall(events) ==
    /\ LET r == replayEvents(events)
       IN  rp' = [called |-> TRUE, events |-> events, err |-> r.err,
                  user |-> IF r.err = "none" THEN r.user ELSE NoUser]
    /\ UNCHANGED <<eventLog, users, outbox, proc, nextId, ops, dom, clock, poller, st, cache, lst>>

ReplayNext == \E events \in ReplayInputs : ReplayCall(events)

\* ------------------------------------------------ PrismaEventStore, directly
NoNum == <<>>               \* an omitted number argument; <<n>> is the number n

\* saveEvents going on to the version check with an empty list
saveEventsChecksFirst(aggregateId, events, expectedVersion) ==
    IF versionConflict(currentVersion(aggregateId), expectedVersion)
    THEN [err |-> "ConcurrencyConflict", rows |-> <<>>, tx |-> TRUE]
    ELSE [err |-> "none", rows |-> eventRecords(events, expectedVersion),
          tx |-> TRUE]

\* saveEvents as one call with no other writer: the rows it inserts, and
\* whether it opened a transaction
saveEvents(aggregateId, events, expectedVersion) ==
    IF Len(events) = 0 THEN [err |-> "none", rows |-> <<>>, tx |-> FALSE]
    ELSE IF versionConflict(currentVersion(aggregateId), expectedVersion)
    THEN [err |-> "ConcurrencyConflict", rows |-> <<>>, tx |-> TRUE]
    ELSE [err |-> "none", rows |-> eventRecords(events, expectedVersion),
          tx |-> TRUE]

\* the filter written as eventVersion: { gte: fromVersion }
getEventsFromInclusive(aggregateId, fromVersion) ==
    OrderByVersion(
        SelectSeq(eventLog,
            LAMBDA r : /\ r.aggregateId = aggregateId
                       /\ (fromVersion # NoNum => r.eventVersion >= fromVersion[1])),
        0)

\* getEvents(aggregateId, fromVersion?)
getEventsFrom(aggregateId, fromVersion) ==
    OrderByVersion(
        SelectSeq(eventLog,
            LAMBDA r : /\ r.aggregateId = aggregateId
                       /\ (fromVersion # NoNum => r.eventVersion > fromVersion[1])),
        0)

\* orderBy: { position: 'asc' } over the positions from i on that pass the
\* where clause; the position column is the place of the row in event_logs
RECURSIVE PositionsFrom(_, _, _)
PositionsFrom(i, fromPosition, types) ==
    IF i > Len(eventLog) THEN <<>>
    ELSE IF /\ (fromPosition # NoNum => i > fromPosition[1])
            /\ eventLog[i].eventType \in types
         THEN <<i>> \o PositionsFrom(i + 1, fromPosition, types)
         ELSE PositionsFrom(i + 1, fromPosition, types)

\* take: maxCount
Take(seq, maxCount) ==
    IF maxCount = NoNum \/ Len(seq) <= maxCount[1] THEN seq
    ELSE SubSeq(seq, 1, maxCount[1])

EventTypes == {"UserCreated", "UserUpdated", "UserDeleted"}

\* the rows at those positions, as DomainEvents (the position is not selected)
EventsAt(positions) == [k \in 1..Len(positions) |-> eventLog[positions[k]]]

getAllEvents(fromPosition, maxCount) ==
    EventsAt(Take(PositionsFrom(1, fromPosition, EventTypes), maxCount))

getEventsByType(eventType, fromPosition, maxCount) ==
    EventsAt(Take(PositionsFrom(1, fromPosition, {eventType}), maxCount))

\* getUserByVersion on the events getEvents has returned
replayUpTo(events, version) ==
    LET eventsUpToVersion == SelectSeq(events, LAMBDA e : e.eventVersion <= version)
    IN  IF Len(eventsUpToVersion) = 0 THEN NotFound
        ELSE LET r == replayEvents(eventsUpToVersion)
             IN  IF r.err = "none" THEN Found(r.user) ELSE Thrown(r.err)

getUserByVersion(id, version) == replayUpTo(getEvents(id), version)

\* ------------------------------------------------- direct event store calls
StoreIds == {1, 2}
StoreEmail(id) == IF id = 1 THEN EmailA ELSE EmailB
StoreUser(id) == clearDomainEvents(UserCreate(id, StoreEmail(id), NameAl, UNDEFINED).user)

\* the events the aggregate of that id emits
EvCreated(id) == UserCreate(id, StoreEmail(id), NameAl, UNDEFINED).user.domainEvents[1]
EvRenamed(id) == updateName(StoreUser(id), NameBo, Actor1).user.domainEvents[1]
EvDeleted(id) == delete(StoreUser(id), Actor1).user.domainEvents[1]

StoreBatches(id) ==
    LET pool == {EvCreated(id), EvRenamed(id), EvDeleted(id)}
    IN  UNION {[1..n -> pool] : n \in 0..2}

\* a users row written before the event log existed: version has the column
\* default 1 and no event row belongs to it
LegacyRow(deletedAt) ==
    [email |-> EmailA, name |-> NameAl, version |-> 1, deletedAt |-> deletedAt,
     createdBy |-> NULL, updatedBy |-> NULL, deletedBy |-> NULL]

LegacyTables ==
    {<<>>, [id \in {1} |-> LegacyRow(NULL)], [id \in {1} |-> LegacyRow(DateNow)]}

NoStoreCall ==
    [called |-> FALSE, id |-> 0, n |-> 0, expected |-> 0, err |-> "none",
     tx |-> FALSE, lenBefore |-> 0]

\* a stream the aggregate can have produced: its creation event first and
\* only there
WellFormed(rows) ==
    \A i \in 1..Len(rows) : (rows[i].eventType = "UserCreated") <=> (i = 1)

StoreSaveEvents(id, events, expectedVersion) ==
    /\ Len(eventLog) + Len(events) <= MaxLog
    /\ LET r == saveEvents(id, events, expectedVersion)
       IN  /\ WellFormed(SelectSeq(eventLog, LAMBDA x : x.aggregateId = id) \o r.rows)
           /\ eventLog' = eventLog \o r.rows
           /\ st' = [called |-> TRUE, id |-> id, n |-> Len(events),
                     expected |-> expectedVersion, err |-> r.err, tx |-> r.tx,
                     lenBefore |-> Len(eventLog)]
    /\ UNCHANGED <<users, outbox, proc, nextId, ops, dom, clock, poller, rp,
                   cache, lst>>

StoreNext ==
    \E id \in StoreIds, expectedVersion \in 0..MaxLog :
        \E events \in StoreBatches(id) : StoreSaveEvents(id, events, expectedVersion)

\* ------------------------------------------------------ list use case
\* created_at of a users row: ids are handed out in the order of the
\* User.create calls, each of which stamps createdAt with new Date()
CreatedAtOf(id) == id

\* orderBy: { createdAt: 'desc' }
RECURSIVE NewestFirst(_)
NewestFirst(ids) ==
    IF ids = {} THEN <<>>
    ELSE LET m == CHOOSE x \in ids : \A y \in ids : CreatedAtOf(y) <= CreatedAtOf(x)
         IN  <<m>> \o NewestFirst(ids \ {m})

Skip(seq, offset) ==
    IF offset >= Len(seq) THEN <<>> ELSE SubSeq(seq, offset + 1, Len(seq))

\* findMany(page, limit): the page of rows, and prisma.user.count() of the table
findMany(page, limit) ==
    LET offset == (page - 1) * limit
        rows == Take(Skip(NewestFirst({id \in DOMAIN users :
                                          users[id].deletedAt = NULL}), offset),
                     <<limit>>)
    IN  [users |-> [k \in 1..Len(rows) |-> userFromRecord(rows[k]).user],
         total |-> Cardinality(DOMAIN users)]

\* Math.ceil(total / limit)
Ceil(total, limit) == (total + limit - 1) \div limit

\* the response the use case builds from the repository
listResponse(page, limit) ==
    LET r == findMany(page, limit)
    IN  [users |-> [k \in 1..Len(r.users) |->
                       [id |-> r.users[k].id, email |-> r.users[k].email,
                        name |-> r.users[k].name, createdAt |-> "IsoString"]],
         pagination |-> [page |-> page, limit |-> limit, total |-> r.total,
                         totalPages |-> Ceil(r.total, limit)]]

DefaultPage == 1
DefaultLimit == 10
MaxLimit == 100

\* query strings of GET /users; 0 stands for an absent parameter
ListRequests ==
    {[page |-> 0, limit |-> 0], [page |-> 2, limit |-> 1]}

PageOf(request) == IF request.page = 0 THEN DefaultPage ELSE request.page
LimitOf(request) ==
    LET l == IF request.limit = 0 THEN DefaultLimit ELSE request.limit
    IN  IF l < MaxLimit THEN l ELSE MaxLimit

\* generateUserListKey(page, limit)
generateUserListKey(page, limit) == <<page, limit>>

CacheKeys == {generateUserListKey(PageOf(r), LimitOf(r)) : r \in ListRequests}

\* a key Redis does not hold is <<>>, a held one <<response>>
EmptyCache == [k \in CacheKeys |-> <<>>]

NoList ==
    [n |-> 0, key |-> <<0, 0>>, hit |-> FALSE, queried |-> FALSE,
     response |-> <<>>, held |-> <<>>]

\* execute without the look into the cache
ListUsersAlwaysQueries(request) ==
    /\ lst.n < MaxLists
    /\ LET page == PageOf(request)
           limit == LimitOf(request)
           cacheKey == generateUserListKey(page, limit)
           response == listResponse(page, limit)
       IN  /\ cache' = [cache EXCEPT ![cacheKey] = <<response>>]
           /\ lst' = [n |-> lst.n + 1, key |-> cacheKey, hit |-> FALSE,
                      queried |-> TRUE, response |-> <<response>>,
                      held |-> cache[cacheKey]]
    /\ UNCHANGED <<eventLog, users, outbox, proc, nextId, ops, dom, clock,
                   poller, rp, st>>

\* ListUsersUseCaseImpl.execute
ListUsers(request) ==
    /\ lst.n < MaxLists
    /\ LET page == PageOf(request)
           limit == LimitOf(request)
           cacheKey == generateUserListKey(page, limit)
           cached == cache[cacheKey]
           response == listResponse(page, limit)
       IN  IF cached # <<>>
           THEN /\ cache' = cache
                /\ lst' = [n |-> lst.n + 1, key |-> cacheKey, hit |-> TRUE,
                           queried |-> FALSE, response |-> cached,
                           held |-> cached]
           ELSE /\ cache' = [cache EXCEPT ![cacheKey] = <<response>>]
                /\ lst' = [n |-> lst.n + 1, key |-> cacheKey, hit |-> FALSE,
                           queried |-> TRUE, response |-> <<response>>,
                           held |-> cached]
    /\ UNCHANGED <<eventLog, users, outbox, proc, nextId, ops, dom, clock,
                   poller, rp, st>>

\* setEx: Redis drops the key when its 300 seconds are over
CacheExpire(cacheKey) ==
    /\ cache[cacheKey] # <<>>
    /\ cache' = [cache EXCEPT ![cacheKey] = <<>>]
    /\ UNCHANGED <<eventLog, users, outbox, proc, nextId, ops, dom, clock,
                   poller, rp, st, lst>>

\* one request handler for the writes, next to the list requests
CacheNext ==
    \/ \E email \in CreateEmails, name \in CreateNames : CreateStart(1, email, name)
    \/ \E id \in TargetIds, email \in UpdateEmails, name \in UpdateNames,
          a \in UpdateActors : UpdateStart(1, id, email, name, a)
    \/ UpdateCheckEmail(1)
    \/ \E id \in TargetIds : DeleteStart(1, id)
    \/ SaveCheckEmail(1)
    \/ SaveEventsRead(1)
    \/ SaveEventsInsert(1)
    \/ Upsert(1)
    \/ OutboxSave(1)
    \/ OutboxSaveFails(1)
    \/ \E request \in ListRequests : ListUsers(request)
    \/ \E cacheKey \in CacheKeys : CacheExpire(cacheKey)

Next ==
    \/ \E p \in Procs, email \in CreateEmails, name \in CreateNames :
          CreateStart(p, email, name)
    \/ \E p \in Procs, id \in TargetIds,
          email \in UpdateEmails, name \in UpdateNames, a \in UpdateActors :
          UpdateStart(p, id, email, name, a)
    \/ \E p \in Procs : UpdateCheckEmail(p)
    \/ \E p \in Procs, id \in TargetIds : DeleteStart(p, id)
    \/ \E p \in Procs : SaveCheckEmail(p)
    \/ \E p \in Procs : SaveEventsRead(p)
    \/ \E p \in Procs : SaveEventsInsert(p)
    \/ \E p \in Procs : Upsert(p)
    \/ \E p \in Procs : OutboxSave(p)
    \/ \E p \in Procs : OutboxSaveFails(p)

\* the database after the seed script: all three tables empty
EmptyDb ==
    /\ eventLog = <<>>
    /\ users = <<>>
    /\ outbox = <<>>
    /\ nextId = 0
    /\ clock = 0

\* the database after one create use case has completed for a@x.c / Al
OneUserDb ==
    /\ eventLog = eventRecords(FirstUser.domainEvents, 0)
    /\ users = [id \in {1} |-> createRow(clearDomainEvents(FirstUser))]
    /\ outbox = <<outboxRow(outboxEntry("create", FirstUser,
                                         FirstUser.domainEvents[1]), 0)>>
    /\ nextId = 1
    /\ clock = 1

SysInit ==
    /\ EmptyDb \/ OneUserDb
    /\ proc = [p \in Procs |-> IdleProc]
    /\ ops = 0
    /\ poller = IdlePoller
    /\ rp = NoReplay
    /\ st = NoStoreCall
    /\ cache = EmptyCache
    /\ lst = NoList

Init == SysInit /\ DomInit

Spec == Init /\ [][Next]_vars

DomainSpec == Init /\ [][DomNext]_vars

OutboxSpec == Init /\ [][OutboxNext]_vars /\ PollFairness

ReplaySpec == Init /\ [][ReplayNext]_vars

\* an empty event log next to a users table with or without a legacy row
StoreInit ==
    /\ eventLog = <<>>
    /\ users \in LegacyTables
    /\ outbox = <<>>
    /\ nextId = 0
    /\ clock = 0
    /\ proc = [p \in Procs |-> IdleProc]
    /\ ops = 0
    /\ poller = IdlePoller
    /\ rp = NoReplay
    /\ st = NoStoreCall
    /\ cache = EmptyCache
    /\ lst = NoList
    /\ DomInit

StoreSpec == StoreInit /\ [][StoreNext]_vars

CacheSpec == Init /\ [][CacheNext]_vars

\* the use cases, one request at a time, on a database whose users table
\* holds one row from before the event log existed
LegacyNext ==
    \/ \E email \in CreateEmails, name \in CreateNames : CreateStart(1, email, name)
    \/ \E id \in TargetIds, email \in UpdateEmails, name \in UpdateNames,
          a \in UpdateActors : UpdateStart(1, id, email, name, a)
    \/ UpdateCheckEmail(1)
    \/ \E id \in TargetIds : DeleteStart(1, id)
    \/ SaveCheckEmail(1)
    \/ SaveEventsRead(1)
    \/ SaveEventsInsert(1)
    \/ Upsert(1)
    \/ OutboxSave(1)
    \/ OutboxSaveFails(1)

LegacyInit ==
    /\ eventLog = <<>>
    /\ users \in LegacyTables \ {<<>>}
    /\ outbox = <<>>
    /\ nextId = 1
    /\ clock = 0
    /\ proc = [p \in Procs |-> IdleProc]
    /\ ops = 0
    /\ poller = IdlePoller
    /\ rp = NoReplay
    /\ st = NoStoreCall
    /\ cache = EmptyCache
    /\ lst = NoList
    /\ DomInit

LegacySpec == LegacyInit /\ [][LegacyNext]_vars

\* ================================================================== claims
StreamOf(id) == SelectSeq(eventLog, LAMBDA r : r.aggregateId = id)

\* every eventVersion 1..n of an n-row stream is held by exactly one row
VersionsOnce(id) ==
    \A v \in 1..Len(StreamOf(id)) :
        Cardinality({i \in DOMAIN StreamOf(id) : StreamOf(id)[i].eventVersion = v}) = 1

\* C1: of two saveEvents calls on one aggregate with the same expectedVersion
\* at most one inserts its rows, and every stream holds each eventVersion
\* exactly once.
C1_ExactlyOneAppendWins ==
    /\ \A p, q \in Procs :
          (p # q /\ proc[p].appended # {} /\ proc[q].appended # {})
             => ~(proc[p].aggId = proc[q].aggId /\ proc[p].expected = proc[q].expected)
    /\ \A id \in 1..nextId : VersionsOnce(id)

\* C2: a use case that failed after its events were appended has left neither
\* those event rows nor any outbox row of its own behind.
C2_FailedUseCaseLeavesNoRows ==
    \A p \in Procs :
        (proc[p].pc = "done" /\ proc[p].outcome # "ok" /\ proc[p].appended # {})
           => /\ \A pos \in proc[p].appended : pos \notin DOMAIN eventLog
              /\ \A k \in proc[p].outboxed : k \notin DOMAIN outbox

\* C3: after N persisted mutations the stream of the aggregate holds exactly
\* the eventVersions 1..N, each once, and the aggregate that was just saved
\* has version N.
C3_VersionEqualsMutationCount ==
    /\ \A id \in 1..nextId : VersionsOnce(id)
    /\ \A p \in Procs :
          (proc[p].pc = "upsert" /\ Len(eventLog) \in proc[p].appended)
             => proc[p].user.version = Len(StreamOf(proc[p].aggId))

\* ---------------------------------------------------------------- C4
\* C4: once every emitted event is persisted, replaying the stored stream
\* gives an aggregate equal, field for field, to the in-memory aggregate.
C4_ReplayEqualsInMemory ==
    (dom.created /\ Len(dom.user.domainEvents) = 0 /\ Len(dom.stored) > 0)
        => /\ replayEvents(dom.stored).err = "none"
           /\ Fields(replayEvents(dom.stored).user) = Fields(dom.user)

\* C5: once an aggregate is soft-deleted and saved, findById returns null
\* and getUserHistory still returns the whole stream, ending in UserDeleted.
C5_DeletedIsNotFoundButHasHistory ==
    \A id \in 1..nextId :
        (/\ id \in DOMAIN users
         /\ users[id].deletedAt # NULL
         /\ \E i \in DOMAIN eventLog :
               eventLog[i].aggregateId = id /\ eventLog[i].eventType = "UserDeleted")
           => /\ ~findById(id).found
              /\ Len(getUserHistory(id)) = Len(StreamOf(id))
              /\ getUserHistory(id)[Len(getUserHistory(id))].eventType = "UserDeleted"

\* C6: a save that failed with ConflictError for a duplicate email has
\* appended no event.
C6_EmailConflictAppendsNothing ==
    \A p \in Procs :
        (proc[p].pc = "done" /\ proc[p].outcome = "ConflictError"
           /\ proc[p].failedIn = "save")
           => proc[p].appended = {}

\* C7: a saveEvents call whose expectedVersion differs from the highest stored
\* eventVersion it reads fails with a concurrency conflict that carries both
\* numbers and inserts no row; a call whose expectedVersion matches does not
\* fail that way.
C7_VersionMismatchRejected ==
    \A p \in Procs :
        proc[p].seRead =>
            IF proc[p].actual # proc[p].expected
            THEN /\ proc[p].pc = "done"
                 /\ proc[p].outcome = "ConcurrencyConflict"
                 /\ proc[p].conflict = [expected |-> proc[p].expected,
                                        actual |-> proc[p].actual]
                 /\ proc[p].appended = {}
            ELSE proc[p].outcome # "ConcurrencyConflict"

C7_Witness ==
    \E p \in Procs :
        /\ proc[p].seRead
        /\ proc[p].actual > proc[p].expected
        /\ proc[p].expected > 0
        /\ proc[p].outcome = "ConcurrencyConflict"
        /\ Len(StreamOf(proc[p].aggId)) = proc[p].actual

\* C8: an update or delete of an id that has no aggregate, or whose aggregate
\* is already soft-deleted, fails with NotFoundError and writes no event, no
\* snapshot row and no outbox entry.
C8_MissingOrDeletedIsNotFound ==
    \A p \in Procs :
        (proc[p].pc = "done" /\ proc[p].kind \in {"update", "delete"}
           /\ proc[p].target \in {"absent", "deleted"})
           => /\ proc[p].outcome = "NotFoundError"
              /\ proc[p].appended = {}
              /\ ~proc[p].wroteSnapshot
              /\ proc[p].outboxed = {}

\* C9: updateName with the current name and updateEmail with the current
\* email (however padded or capitalised) leave the whole aggregate as it was:
\* same version, same uncommitted buffer, same fields.
C9_SameValueIsNoOp ==
    /\ (dom.last.op = "updateName" /\ Trim(dom.last.str) = dom.last.before.name)
          => dom.user = dom.last.before
    /\ (dom.last.op = "updateEmail"
          /\ Trim(ToLowerCase(dom.last.str)) = dom.last.before.email)
          => dom.user = dom.last.before

C9_Witness ==
    /\ dom.last.op = "updateName"
    /\ dom.last.err = "none"
    /\ dom.last.str = NamePadAl
    /\ dom.last.before.name = NameAl
    /\ Len(dom.last.before.domainEvents) = 2

\* C10: a call that raises ValidationError leaves the aggregate as it was, and
\* a create that raises it yields no aggregate; an update of a soft-deleted
\* aggregate, an invalid email and a name whose trimmed length is outside
\* [2,100] all raise it.
C10_ValidationErrorChangesNothing ==
    /\ dom.last.err = "ValidationError"
          => IF dom.last.op = "create"
             THEN ~dom.created /\ dom.user = NoUser /\ dom.stored = <<>>
             ELSE dom.user = dom.last.before
    /\ (dom.last.op \in {"updateName", "updateEmail"} /\ isDeleted(dom.last.before))
          => dom.last.err = "ValidationError"
    /\ (dom.last.op = "updateName"
          /\ Len(Trim(dom.last.str)) \notin MinNameLength..MaxNameLength)
          => dom.last.err = "ValidationError"
    /\ (dom.last.op = "updateEmail" /\ ~validateEmail(dom.last.str))
          => dom.last.err = "ValidationError"

C10_Witness ==
    /\ dom.last.err = "ValidationError"
    /\ dom.last.op = "updateName"
    /\ dom.last.str = NameLong
    /\ ~isDeleted(dom.last.before)
    /\ dom.last.before.version = 2

\* C11: delete on a live aggregate sets deletedAt, records the deleting actor,
\* raises version by one and appends exactly one UserDeleted event to the
\* uncommitted buffer, leaving every other field alone; delete on an
\* already-deleted aggregate changes nothing.
C11_DeleteOnceThenNoOp ==
    dom.last.op = "delete" =>
        /\ dom.last.err = "none"
        /\ IF isDeleted(dom.last.before)
           THEN dom.user = dom.last.before
           ELSE /\ dom.user.deletedAt = DateNow
                /\ isDeleted(dom.user)
                /\ dom.user.deletedBy =
                      (IF dom.last.actor = UNDEFINED THEN NULL ELSE dom.last.actor)
                /\ dom.user.version = dom.last.before.version + 1
                /\ Len(dom.user.domainEvents) = Len(dom.last.before.domainEvents) + 1
                /\ SubSeq(dom.user.domainEvents, 1, Len(dom.last.before.domainEvents))
                      = dom.last.before.domainEvents
                /\ dom.user.domainEvents[Len(dom.user.domainEvents)].eventType
                      = "UserDeleted"
                /\ dom.user.domainEvents[Len(dom.user.domainEvents)].aggregateId
                      = dom.user.id
                /\ dom.user.email = dom.last.before.email
                /\ dom.user.name = dom.last.before.name
                /\ dom.user.id = dom.last.before.id
                /\ dom.user.createdBy = dom.last.before.createdBy
                /\ dom.user.updatedBy = dom.last.before.updatedBy

\* a second delete right after the first, the first one still unsaved
C11_Witness ==
    /\ dom.last.op = "delete"
    /\ isDeleted(dom.last.before)
    /\ dom.last.actor = Actor1
    /\ Len(dom.user.domainEvents) = 2
    /\ dom.user.domainEvents[2].eventType = "UserDeleted"
    /\ dom.user.deletedBy = NULL
    /\ dom.user.version = 2

\* ---------------------------------------------------------------- outbox
\* the step is a markAsProcessed call of the poller on entry i
MarkStepOn(i) ==
    /\ poller'.lastOp \in {"mark", "remark"}
    /\ poller'.lastId = i
    /\ clock' = clock + 1

\* C12: every outbox entry is created with processed = false and no
\* processedAt; a processed entry always has processedAt set; processed
\* turns from false to true only in a markAsProcessed call on that entry and
\* never turns back to false.
C12_ProcessedOnlyForward ==
    /\ [](\A i \in DOMAIN outbox :
             outbox[i].processed => outbox[i].processedAt # NoTime)
    /\ [][\A i \in DOMAIN outbox' :
             IF i \notin DOMAIN outbox
             THEN outbox'[i].processed = FALSE /\ outbox'[i].processedAt = NoTime
             ELSE /\ outbox[i].processed => outbox'[i].processed
                  /\ (~outbox[i].processed /\ outbox'[i].processed) => MarkStepOn(i)
         ]_vars

\* an entry marked a second time, next to one that is still unprocessed
C12_Witness ==
    /\ poller.lastOp = "remark"
    /\ outbox[poller.lastId].processed
    /\ outbox[poller.lastId].processedAt # NoTime
    /\ \E j \in DOMAIN outbox : ~outbox[j].processed /\ outbox[j].processedAt = NoTime

\* C13: with the poller, no entry is marked processed before a delivery of it
\* has succeeded, and under fair polling with deliveries that eventually
\* succeed every saved entry is eventually delivered and marked processed.
C13_AtLeastOnceDelivery ==
    /\ [](\A i \in DOMAIN outbox : outbox[i].processed => i \in poller.delivered)
    /\ \A i \in EntryIds :
          (i \in DOMAIN outbox) ~> (i \in poller.delivered /\ outbox[i].processed)

\* a delivery has just failed and left its entry unprocessed, while an
\* earlier entry has been delivered and marked
C13_Witness ==
    /\ poller.lastOp = "deliverFail"
    /\ poller.lastId \in DOMAIN outbox
    /\ ~outbox[poller.lastId].processed
    /\ poller.lastId \notin poller.delivered
    /\ \E i \in DOMAIN outbox : outbox[i].processed /\ i \in poller.delivered

\* C14: a findUnprocessed call returns exactly the entries whose processed
\* flag is false, each once, in the order in which they were created; so an
\* entry that is marked processed is in no later result.
C14_FindUnprocessedExact ==
    [][poller'.lastOp = "find" =>
          /\ \A a \in 1..Len(poller'.batch) :
                /\ poller'.batch[a] \in DOMAIN outbox
                /\ ~outbox[poller'.batch[a]].processed
          /\ \A i \in DOMAIN outbox :
                ~outbox[i].processed => \E a \in 1..Len(poller'.batch) : poller'.batch[a] = i
          /\ \A a, c \in 1..Len(poller'.batch) :
                a < c => poller'.batch[a] < poller'.batch[c]
      ]_vars

\* the first entry is processed and the call returns the two later ones
C14_Witness ==
    /\ poller.lastOp = "find"
    /\ Len(outbox) = 3
    /\ outbox[1].processed
    /\ poller.batch = <<2, 3>>

\* the step is a second markAsProcessed call on an entry already processed
RemarkStep ==
    /\ poller'.lastOp = "remark"
    /\ poller'.remarks = poller.remarks + 1

\* C15 as stated: a second markAsProcessed call on a processed entry leaves
\* the outbox in the state the first call left it in.
C15_SecondMarkSameState ==
    [][RemarkStep => outbox' = outbox]_vars

\* C15 amended: a second markAsProcessed call on a processed entry succeeds,
\* the entry stays processed, every other column of it except processedAt and
\* every other entry are untouched; processedAt is set again.
C15_SecondMarkKeepsAllButProcessedAt ==
    [][RemarkStep =>
          /\ DOMAIN outbox' = DOMAIN outbox
          /\ outbox'[poller'.lastId].processed
          /\ outbox'[poller'.lastId].processedAt # NoTime
          /\ outbox'[poller'.lastId].eventType = outbox[poller'.lastId].eventType
          /\ outbox'[poller'.lastId].eventData = outbox[poller'.lastId].eventData
          /\ outbox'[poller'.lastId].createdAt = outbox[poller'.lastId].createdAt
          /\ \A i \in DOMAIN outbox : i # poller'.lastId => outbox'[i] = outbox[i]
      ]_vars

\* marked a second time at a later instant, next to an unprocessed entry
C15_Witness ==
    /\ poller.lastOp = "remark"
    /\ outbox[poller.lastId].processed
    /\ outbox[poller.lastId].processedAt = <<clock - 1>>
    /\ outbox[poller.lastId].createdAt < clock - 2
    /\ \E j \in DOMAIN outbox : j # poller.lastId /\ ~outbox[j].processed

\* ---------------------------------------------------------------- C16
\* the outbox eventType each kind of use case writes
OutboxTypeOf(kind) ==
    IF kind = "create" THEN "user.created"
    ELSE IF kind = "update" THEN "user.updated" ELSE "user.deleted"

DomainTypeOf(kind) ==
    IF kind = "create" THEN "UserCreated"
    ELSE IF kind = "update" THEN "UserUpdated" ELSE "UserDeleted"

\* C16: a use case that completed successfully has saved as many outbox
\* entries as it appended events: one for create, one for delete, one per
\* changed field for update (none when nothing changes), each with eventType
\* user.created, user.updated or user.deleted according to the use case.
C16_OutboxEntryPerEvent ==
    \A p \in Procs :
        (proc[p].pc = "done" /\ proc[p].outcome = "ok")
           => /\ Cardinality(proc[p].outboxed) = Cardinality(proc[p].appended)
              /\ Cardinality(proc[p].appended) =
                    (IF proc[p].kind = "update" THEN proc[p].changed ELSE 1)
              /\ \A k \in proc[p].outboxed :
                    /\ k \in DOMAIN outbox
                    /\ outbox[k].eventType = OutboxTypeOf(proc[p].kind)
                    /\ outbox[k].eventData.id = proc[p].aggId
              /\ \A pos \in proc[p].appended :
                    /\ eventLog[pos].eventType = DomainTypeOf(proc[p].kind)
                    /\ eventLog[pos].aggregateId = proc[p].aggId

\* an update that changed both fields: two events, two user.updated entries
C16_Witness ==
    \E p \in Procs :
        /\ proc[p].pc = "done" /\ proc[p].outcome = "ok"
        /\ proc[p].kind = "update"
        /\ proc[p].changed = 2
        /\ Cardinality(proc[p].appended) = 2
        /\ Cardinality(proc[p].outboxed) = 2

\* ---------------------------------------------------------------- C17
\* C17: save on an aggregate with k > 0 uncommitted events calls saveEvents
\* with expectedVersion = version - k; when saveEvents has returned the
\* buffer is empty and version is what it was; when the upsert has returned
\* the snapshot row of the aggregate holds its email, name, version and
\* deletedAt.
C17_SaveAppendsAtVersionMinusK ==
    [][\A p \in Procs :
          /\ (proc[p].pc = "save_check" /\ proc'[p].pc = "se_read")
                => /\ Len(proc[p].user.domainEvents) > 0
                   /\ proc'[p].expected =
                         proc[p].user.version - Len(proc[p].user.domainEvents)
          /\ (proc[p].pc = "save_check" /\ proc'[p].pc = "upsert")
                => Len(proc[p].user.domainEvents) = 0
          /\ (proc[p].pc = "se_insert" /\ proc'[p].pc = "upsert")
                => /\ proc'[p].user.domainEvents = <<>>
                   /\ proc'[p].user.version = proc[p].user.version
                   /\ Len(eventLog') = Len(eventLog) + Len(proc[p].user.domainEvents)
                   /\ \A i \in 1..Len(proc[p].user.domainEvents) :
                         eventLog'[Len(eventLog) + i].eventVersion
                            = proc[p].user.version
                                 - Len(proc[p].user.domainEvents) + i
          /\ (proc[p].pc = "upsert" /\ proc'[p].wroteSnapshot /\ proc[p].appended # {})
                => /\ proc'[p].pc = "outbox"
                   /\ proc'[p].user.domainEvents = <<>>
                   /\ proc'[p].user.version = proc[p].user.version
                   /\ proc[p].aggId \in DOMAIN users'
                   /\ users'[proc[p].aggId].email = proc[p].user.email
                   /\ users'[proc[p].aggId].name = proc[p].user.name
                   /\ users'[proc[p].aggId].version = proc[p].user.version
                   /\ users'[proc[p].aggId].deletedAt = proc[p].user.deletedAt
      ]_vars

\* an update of both fields saved: two events appended at expectedVersion 1,
\* the row rewritten at version 3
C17_Witness ==
    \E p \in Procs :
        /\ proc[p].pc = "outbox"
        /\ proc[p].kind = "update"
        /\ proc[p].wroteSnapshot
        /\ proc[p].expected = 1
        /\ Cardinality(proc[p].appended) = 2
        /\ proc[p].user.version = 3
        /\ users[proc[p].aggId].version = 3
        /\ users[proc[p].aggId].name = NameBo
        /\ users[proc[p].aggId].email = EmailB

\* ---------------------------------------------------------------- replay
HandledTypes == {"UserCreated", "UserUpdated", "UserDeleted"}

\* a stream as the event store holds it: a creation event first, then events
\* of types the aggregate handles
ValidStream(events) ==
    /\ Len(events) > 0
    /\ events[1].eventType = "UserCreated"
    /\ \A i \in 1..Len(events) : events[i].eventType \in HandledTypes

\* C18: replaying a non-empty valid event sequence of length N gives an
\* aggregate whose uncommitted buffer is empty and whose version is N.
C18_ReplayEmitsNothing ==
    (rp.called /\ ValidStream(rp.events))
        => /\ rp.err = "none"
           /\ rp.user.domainEvents = <<>>
           /\ rp.user.version = Len(rp.events)

\* created, renamed, deleted: three events replayed
C18_Witness ==
    /\ rp.called
    /\ rp.events = <<RowCreated, RowRenamed, RowDeleted>>
    /\ rp.err = "none"
    /\ rp.user.version = 3
    /\ rp.user.name = NameBo
    /\ isDeleted(rp.user)

\* C19: replayEvents of the empty sequence fails with an error and returns
\* no aggregate.
C19_EmptyStreamFails ==
    (rp.called /\ rp.events = <<>>)
        => /\ rp.err # "none"
           /\ rp.user = NoUser

C19_Witness ==
    /\ rp.called
    /\ Len(rp.events) = 0
    /\ rp.err = "Error"

\* C20: replay of a sequence that holds, at any position, an event whose
\* eventType the User aggregate has no handler for fails with an error and
\* returns no aggregate; and whenever replay returns an aggregate, every
\* event of the sequence was of a handled type and was counted.
C20_UnknownEventTypeFails ==
    /\ (rp.called /\ \E i \in 1..Len(rp.events) :
                        rp.events[i].eventType \notin HandledTypes)
          => /\ rp.err = "Error"
             /\ rp.user = NoUser
    /\ (rp.called /\ rp.err = "none")
          => /\ \A i \in 1..Len(rp.events) : rp.events[i].eventType \in HandledTypes
             /\ rp.user.version = Len(rp.events)

\* the unknown event is the last of three, after a valid creation event
C20_Witness ==
    /\ rp.called
    /\ rp.events = <<RowCreated, RowEmailed, RowArchived>>
    /\ rp.err = "Error"
    /\ rp.user = NoUser

\* ------------------------------------------------------------------ C21
IsPrefix(a, b) == Len(a) <= Len(b) /\ SubSeq(b, 1, Len(a)) = a

\* C21: the event log is append-only: no step of a use case changes or
\* removes a row that exists, so the rows of every aggregate, in the order
\* they were appended, are a prefix of its rows in every later state.
C21_EventLogAppendOnly ==
    [][/\ \A i \in DOMAIN eventLog :
             i \in DOMAIN eventLog' /\ eventLog'[i] = eventLog[i]
       /\ \A id \in Ids : IsPrefix(StreamOf(id), StreamOf(id)')]_vars

\* a second batch has been appended to the stream of an aggregate
C21_Witness ==
    \E p \in Procs :
        /\ proc[p].appended # {}
        /\ \E i \in DOMAIN eventLog :
              /\ i \notin proc[p].appended
              /\ \A j \in proc[p].appended : i < j
              /\ eventLog[i].aggregateId = proc[p].aggId

C29_EmptySaveIsNoOp ==
    [][(st' # st /\ st'.n = 0) =>
          /\ st'.err = "none"
          /\ ~st'.tx
          /\ eventLog' = eventLog]_vars

\* an empty save has succeeded with an expected version the stream is not at
C29_Witness ==
    /\ st.called
    /\ st.n = 0
    /\ st.err = "none"
    /\ st.expected # Len(StreamOf(st.id))
    /\ Len(StreamOf(st.id)) > 0

\* ------------------------------------------------------------------ C30
FromVersions == {NoNum} \cup {<<v>> : v \in 0..MaxLog}

\* C30: getEvents(aggregateId, fromVersion) returns exactly the rows of the
\* aggregate whose eventVersion is greater than fromVersion, all of them when
\* fromVersion is omitted, in ascending eventVersion order, and the empty
\* sequence when the aggregate has no events.
C30_GetEventsFromVersion ==
    \A id \in StoreIds \cup {NonexistentId}, fromVersion \in FromVersions :
        LET r == getEventsFrom(id, fromVersion)
            wanted == {i \in DOMAIN eventLog :
                          /\ eventLog[i].aggregateId = id
                          /\ (fromVersion = NoNum \/
                              eventLog[i].eventVersion > fromVersion[1])}
        IN  /\ Len(r) = Cardinality(wanted)
            /\ \A i \in wanted : \E k \in DOMAIN r : r[k] = eventLog[i]
            /\ \A k \in DOMAIN r : \E i \in wanted : r[k] = eventLog[i]
            /\ \A k \in 1..(Len(r) - 1) : r[k].eventVersion < r[k + 1].eventVersion
            /\ (StreamOf(id) = <<>> => r = <<>>)

\* a stream of three rows read in full, from its first version and from its end
C30_Witness ==
    \E id \in StoreIds :
        /\ Len(getEventsFrom(id, NoNum)) = 3
        /\ Len(getEventsFrom(id, <<1>>)) = 2
        /\ getEventsFrom(id, <<3>>) = <<>>
        /\ \E other \in StoreIds : getEventsFrom(other, NoNum) = <<>>

\* ------------------------------------------------------------------ C23
\* C23: getUserByVersion(id, v) replays exactly the stored events with
\* eventVersion <= v: its version is min(v, stream length), its fields are
\* the fields the aggregate had right after its v-th event, and it is null
\* when no stored event has eventVersion <= v.
C23_VersionReplayIsStateThen ==
    (dom.created /\ Len(dom.stored) > 0) =>
        \A v \in 0..(MaxCalls + 1) :
            LET r == replayUpTo(dom.stored, v)
                n == IF v < Len(dom.stored) THEN v ELSE Len(dom.stored)
            IN  IF v = 0 THEN r = NotFound
                ELSE /\ r.found
                     /\ r.user.version = n
                     /\ Fields(r.user) = dom.states[n]

\* ------------------------------------------------------------------ C26
\* every event of the aggregate, stored or still in the buffer
AllEvents == dom.stored \o eventRecords(dom.user.domainEvents, Len(dom.stored))

\* C26: every UserUpdated event carries the new and the previous value of
\* the one field it changed, and the previous value equals the value of that
\* field in the replay of all earlier events of the stream.
C26_UpdatedCarriesPreviousValue ==
    \A i \in 1..Len(AllEvents) :
        AllEvents[i].eventType = "UserUpdated" =>
            LET d == AllEvents[i].eventData
                earlier == replayEvents(SubSeq(AllEvents, 1, i - 1))
            IN  /\ earlier.err = "none"
                /\ (d.name # NoStr) # (d.email # NoStr)
                /\ d.name # NoStr =>
                      /\ d.previousValues.name = earlier.user.name
                      /\ d.previousValues.name # d.name
                /\ d.email # NoStr =>
                      /\ d.previousValues.email = earlier.user.email
                      /\ d.previousValues.email # d.email

\* created, renamed and saved, then given another email
C26_Witness ==
    /\ Len(dom.stored) = 2
    /\ Len(dom.user.domainEvents) = 1
    /\ AllEvents[2].eventData.name = NameBo
    /\ AllEvents[2].eventData.previousValues.name = NameAl
    /\ AllEvents[3].eventData.email = EmailB
    /\ AllEvents[3].eventData.previousValues.email = EmailA

\* ------------------------------------------------------------------ C24
FeedCursors == {NoNum} \cup {<<c>> : c \in 0..3}
FeedCounts == {NoNum, <<1>>, <<2>>}
CursorOf(fromPosition) == IF fromPosition = NoNum THEN 0 ELSE fromPosition[1]

\* the pages of maxCount events read one after the other, each from the
\* position the one before ended at
RECURSIVE FeedPages(_, _)
FeedPages(cursor, maxCount) ==
    LET page == getAllEvents(<<cursor>>, <<maxCount>>)
    IN  IF page = <<>> THEN <<>>
        ELSE page \o FeedPages(cursor + Len(page), maxCount)

\* C24: getAllEvents returns the events of all aggregates in the order they
\* were appended, those after fromPosition and at most maxCount of them;
\* pages read one after the other hold every stored event exactly once; the
\* events of one aggregate appear in ascending eventVersion order; and
\* getEventsByType returns the events of that feed with the given type.
C24_FeedInAppendOrder ==
    /\ \A fromPosition \in FeedCursors, maxCount \in FeedCounts :
          /\ getAllEvents(fromPosition, maxCount)
                = Take(Skip(eventLog, CursorOf(fromPosition)), maxCount)
          /\ \A type \in EventTypes :
                getEventsByType(type, fromPosition, maxCount)
                   = Take(SelectSeq(Skip(eventLog, CursorOf(fromPosition)),
                                    LAMBDA e : e.eventType = type), maxCount)
    /\ \A maxCount \in 1..2 : FeedPages(0, maxCount) = eventLog
    /\ LET feed == getAllEvents(NoNum, NoNum)
       IN  \A i, j \in DOMAIN feed :
              (i < j /\ feed[i].aggregateId = feed[j].aggregateId)
                 => feed[i].eventVersion < feed[j].eventVersion

\* ------------------------------------------------------------------ C25
ListPages == {1, 2}
ListLimits == {1, 2, 10}
LiveIds == {id \in DOMAIN users : users[id].deletedAt = NULL}

\* C25: findMany(page, limit) returns the rows of the aggregates that are not
\* soft-deleted, newest first, skipping (page - 1) * limit of them and
\* returning at most limit, and its total is the number of those rows.
C25_FindManyPageAndTotal ==
    \A page \in ListPages, limit \in ListLimits :
        LET r == findMany(page, limit)
            offset == (page - 1) * limit
        IN  /\ Len(r.users) <= limit
            /\ Len(r.users) =
                  (IF Cardinality(LiveIds) - offset > limit THEN limit
                   ELSE IF Cardinality(LiveIds) > offset
                        THEN Cardinality(LiveIds) - offset ELSE 0)
            /\ \A k \in DOMAIN r.users :
                  /\ r.users[k].id \in LiveIds
                  /\ r.users[k].email = users[r.users[k].id].email
                  /\ r.users[k].name = users[r.users[k].id].name
                  /\ Cardinality({id \in LiveIds :
                        CreatedAtOf(id) > CreatedAtOf(r.users[k].id)}) = offset + k - 1
            /\ r.total = Cardinality(LiveIds)

\* ------------------------------------------------------------------ C27
\* the step is a list request
ListStep == lst'.n = lst.n + 1

C28_UpdateInvalidatesCache ==
    \A p \in Procs :
        (/\ proc[p].pc = "done"
         /\ proc[p].kind = "update"
         /\ proc[p].outcome = "ok"
         /\ proc[p].changed > 0)
           => \A k \in CacheKeys :
                 \/ cache[k] = <<>>
                 \/ cache[k] = <<listResponse(k[1], k[2])>>

\* ------------------------------------------------------------------ C37
\* C37: for an aggregate made by User.create or loaded by replay, after any
\* calls of updateName, updateEmail and delete the version less the number
\* of uncommitted events is the number of events already persisted; and
\* clearDomainEvents empties the buffer and leaves version as it was.
C37_VersionLessBufferIsPersisted ==
    /\ [](dom.created =>
            dom.user.version - Len(dom.user.domainEvents) = Len(dom.stored))
    /\ [][dom'.last.op = "save" =>
             /\ dom'.user.domainEvents = <<>>
             /\ dom'.user.version = dom.user.version
             /\ dom'.user = clearDomainEvents(dom.user)]_vars

\* two events persisted, then an update and a delete still in the buffer
C37_Witness ==
    /\ dom.created
    /\ Len(dom.stored) = 2
    /\ Len(dom.user.domainEvents) = 2
    /\ dom.user.version = 4
    /\ dom.last.op = "delete"

\* ------------------------------------------------------------------ C38
\* C38: the eventVersion an event carries in the uncommitted buffer is the
\* eventVersion under which the event store persists it.
C38_EventVersionFixedWhenRaised ==
    dom.created =>
        LET buffer == dom.user.domainEvents
            rows == eventRecords(buffer, dom.user.version - Len(buffer))
        IN  \A i \in DOMAIN buffer : buffer[i].eventVersion = rows[i].eventVersion

\* ------------------------------------------------------------------ C31
\* C31: every aggregate id that has a stored event has a UserCreated event
\* at eventVersion 1, and findById does not fail on its stream; also for
\* aggregates that at first exist only as a snapshot row without events.
C31_StreamStartsWithCreated ==
    \A id \in Ids :
        Len(StreamOf(id)) > 0 =>
            /\ \E i \in DOMAIN eventLog :
                  /\ eventLog[i].aggregateId = id
                  /\ eventLog[i].eventVersion = 1
                  /\ eventLog[i].eventType = "UserCreated"
            /\ findById(id).err = "none"

\* ------------------------------------------------------------------ C32
UseCaseKinds == {"create", "update", "delete"}

\* C32: every outbox entry belongs to a domain event that is stored in the
\* event store, of the same aggregate and with the same data, and a use case
\* whose repository save failed has saved no outbox entry.
C32_OutboxOnlyForStoredEvents ==
    /\ \A k \in DOMAIN outbox :
          \E i \in DOMAIN eventLog, kind \in UseCaseKinds :
              /\ outbox[k].eventType = OutboxTypeOf(kind)
              /\ eventLog[i].eventType = DomainTypeOf(kind)
              /\ eventLog[i].aggregateId = outbox[k].eventData.id
              /\ eventLog[i].eventData = outbox[k].eventData.data
    /\ \A p \in Procs :
          /\ (proc[p].pc = "done" /\ proc[p].failedIn = "save")
                => proc[p].outboxed = {}
          /\ proc[p].outboxed # {}
                => proc[p].appended # {} /\ proc[p].wroteSnapshot

\* one use case failed in save with a concurrency conflict while the other
\* has written its outbox entry
C32_Witness ==
    \E p, q \in Procs :
        /\ proc[p].pc = "done"
        /\ proc[p].failedIn = "save"
        /\ proc[p].outcome = "ConcurrencyConflict"
        /\ proc[p].outboxed = {}
        /\ proc[q].outcome = "ok"
        /\ proc[q].outboxed # {}
        /\ proc[q].aggId = proc[p].aggId

\* ------------------------------------------------------------------ C33
SavePcs == {"save_check", "se_read", "se_insert", "upsert"}

\* C33: whenever no save is in progress, every aggregate with stored events
\* has its snapshot row, whose version is the highest stored eventVersion of
\* the aggregate and whose email, name and deletedAt are those of the state
\* replayed from its stream.
C33_SnapshotMatchesStream ==
    (\A p \in Procs : proc[p].pc \notin SavePcs) =>
        \A id \in Ids :
            Len(StreamOf(id)) > 0 =>
                LET r == replayEvents(getEvents(id))
                IN  /\ id \in DOMAIN users
                    /\ users[id].version = currentVersion(id)
                    /\ r.err = "none"
                    /\ users[id].email = r.user.email
                    /\ users[id].name = r.user.name
                    /\ (users[id].deletedAt # NULL) = isDeleted(r.user)

\* ------------------------------------------------------------------ C34
\* C34: no two distinct aggregates that findById rebuilds from the event
\* store as not deleted have the same email.
C34_LiveEmailsUnique ==
    \A a, b \in Ids :
        (/\ a # b
         /\ Len(StreamOf(a)) > 0
         /\ Len(StreamOf(b)) > 0
         /\ findById(a).found
         /\ findById(b).found
         /\ ~isDeleted(findById(a).user)
         /\ ~isDeleted(findById(b).user))
           => findById(a).user.email # findById(b).user.email

\* ------------------------------------------------------------------ C36
\* C36: once a UserDeleted event of an aggregate is stored, no event of that
\* aggregate is appended after it, and the aggregate replayed from the
\* stream is deleted.
C36_DeletedIsAbsorbing ==
    /\ \A i, j \in DOMAIN eventLog :
          (/\ i < j
           /\ eventLog[i].aggregateId = eventLog[j].aggregateId)
             => eventLog[i].eventType # "UserDeleted"
    /\ \A id \in Ids :
          (\E i \in DOMAIN eventLog :
              /\ eventLog[i].aggregateId = id
              /\ eventLog[i].eventType = "UserDeleted")
             => /\ findById(id).found
                /\ isDeleted(findById(id).user)

\* ------------------------------------------------------------------ C39
\* C39: when a delete use case has succeeded, the snapshot row of the
\* aggregate exists with deletedAt set, and the use case has added exactly
\* one row, a UserDeleted event of the aggregate, to the rows that were
\* stored before.
C39_DeleteKeepsStoredData ==
    \A p \in Procs :
        (proc[p].pc = "done" /\ proc[p].kind = "delete" /\ proc[p].outcome = "ok")
           => /\ proc[p].aggId \in DOMAIN users
              /\ users[proc[p].aggId].deletedAt # NULL
              /\ Cardinality(proc[p].appended) = 1
              /\ \A pos \in proc[p].appended :
                    /\ pos \in DOMAIN eventLog
                    /\ eventLog[pos].eventType = "UserDeleted"
                    /\ eventLog[pos].aggregateId = proc[p].aggId
                    /\ \E i \in 1..(pos - 1) :
                          eventLog[i].aggregateId = proc[p].aggId

\* ------------------------------------------------------------------ C35
\* C35: when saveEvents fails inside save, the use case ends with that
\* error, the aggregate still holds its uncommitted events, no snapshot row
\* and no event row is written, and the append is not tried again.
C35_FailedAppendPropagates ==
    /\ [](\A p \in Procs :
            (proc[p].pc = "done" /\ proc[p].outcome = "ConcurrencyConflict")
               => /\ proc[p].failedIn = "save"
                  /\ proc[p].buffered > 0
                  /\ proc[p].appended = {}
                  /\ ~proc[p].wroteSnapshot
                  /\ proc[p].outboxed = {})
    /\ [][\A p \in Procs :
             (proc[p].pc = "se_read" /\ proc'[p] # proc[p]
                /\ currentVersion(proc[p].aggId) # proc[p].expected)
                => /\ proc'[p].pc = "done"
                   /\ proc'[p].outcome = "ConcurrencyConflict"
                   /\ proc'[p].buffered = Len(proc[p].user.domainEvents)
                   /\ eventLog' = eventLog
                   /\ users' = users
                   /\ outbox' = outbox]_vars

\* an update of both fields that lost against a concurrent writer
C35_Witness ==
    \E p \in Procs :
        /\ proc[p].pc = "done"
        /\ proc[p].kind = "update"
        /\ proc[p].outcome = "ConcurrencyConflict"
        /\ proc[p].buffered = 2
        /\ proc[p].conflict.actual > proc[p].conflict.expected

====
